---------------------------- MODULE Spec2Model ----------------------------
(***************************************************************************)
(* Model of the tutoring chat client: the useChat hook (conversation       *)
(* store and dispatch controller), the transport wrappers it calls, and    *)
(* the presentation components that drive it (App, ChatInput,              *)
(* QuestionCard).                                                          *)
(*                                                                         *)
(* Two specifications are given.  Spec is the hook on its own, called by   *)
(* an arbitrary caller: the functions the hook returns read                *)
(* state.pendingAnswers and state.sessionId from the render that created   *)
(* them, while the updaters passed to setState read the queued state       *)
(* (prev), so a re-render is a step of its own.  SpecUI is the whole       *)
(* application: every step is one browser event or one settled network     *)
(* call, followed by React's re-render and the components' effects.        *)
(***************************************************************************)
EXTENDS Integers, Sequences, FiniteSets, TLC

VARIABLES
    state,        \* useChat's ChatState (the reduction of all queued updaters)
    rendered,     \* the part of ChatState the last render's callbacks captured
    dispatches,   \* every call of sendMessage/submitAnswersOnly that got past its guard
    now,          \* Date.now()
    uuids,        \* number of uuidv4() values drawn so far
    cards,        \* per message: the mounted QuestionCard's local state, if any
    preBroken     \* setPendingAnswers was once given a questionId already locked

vars == <<state, rendered, dispatches, now, uuids, cards, preBroken>>

---------------------------------------------------------------------------
(* Bounds of the model. *)

MaxDispatches == 2

\* Dispatches started from the application (SpecUI): the third is the
\* first that can follow a tutor message's questions being locked.
MaxUIDispatches == 3

---------------------------------------------------------------------------
(* Values. *)

\* An optional field (questions?, questions_title?, question_answers?):
\* absent (undefined) or present.
None == <<>>
Some(x) == <<x>>
IsSome(o) == Len(o) = 1
Get(o) == o[1]

\* error: string | null
Null == "<null>"

SessionIds == {"s1"}
QuestionIds == {"q1", "q2"}
OptionIds == {"a", "b"}

\* QuestionAnswer
QuestionAnswer == [questionId : QuestionIds, selectedOptionId : OptionIds]

Answer(q, o) == [questionId |-> q, selectedOptionId |-> o]

\* The lists a caller of the hook passes to setPendingAnswers.
AnswerLists == {<<>>, <<Answer("q1", "a")>>, <<Answer("q2", "b")>>}

\* The message text a caller of the hook passes to sendMessage; a text is
\* the sequence of its characters, "" is the empty sequence.
Texts == {<<"h">>}

QuestionIdsOf(answers) == {answers[i].questionId : i \in 1..Len(answers)}

---------------------------------------------------------------------------
(* The transport: apiClient.post and its response interceptor, and        *)
(* tutorApi.sendMessage on top of it.                                      *)

AnswerText == <<"o", "k">>

\* The JSON bodies the tutor service may answer with.  A question is
\* modelled by its id.
ApiBodies ==
    { [answer |-> AnswerText, model_used |-> "x", questions |-> qs,
       questions_title |-> IF qs = None THEN None ELSE Some("quiz"),
       cited_paragraphs |-> IF qs = None THEN None ELSE Some(<<"p1">>)] :
      qs \in {None, Some(<<>>), Some(<<"q1", "q2">>)} }

\* What apiClient.post can end with, before the interceptor: a 2xx
\* response with a body, a 2xx response whose body is JSON null, or an
\* axios error with an optional response.data.error and message ("" is
\* absent).
PostOutcomes ==
    { [ok |-> TRUE, data |-> Some(b), respError |-> "", message |-> ""] :
      b \in ApiBodies }
    \cup { [ok |-> TRUE, data |-> None, respError |-> "", message |-> ""] }
    \cup { [ok |-> FALSE, data |-> None, respError |-> e, message |-> m] :
           e \in {"", "rejected"}, m \in {"", "network down"} }

\* new Error(message)
Error(m) == [isError |-> TRUE, message |-> m]

\* a || b on strings
OrElse(a, b) == IF a # "" THEN a ELSE b

\* An interceptor that rejects with the axios error's plain data instead of
\* an Error.
InterceptorPassesThrough(o) == [isError |-> FALSE, message |-> o.message]

\* The response interceptor's rejection handler.
Interceptor(o) ==
    Error(OrElse(o.respError, OrElse(o.message, "An error occurred")))

\* a || [] on an optional array
OrEmpty(o) == IF IsSome(o) THEN Get(o) ELSE <<>>

\* tutorApi.sendMessage: the TutorResponse it resolves with, or the value
\* it rejects with.
TutorApiSendMessage(o) ==
    IF ~o.ok THEN [threw |-> TRUE, value |-> Interceptor(o)]
    ELSE IF o.data = None
    THEN [threw |-> TRUE,
          value |-> Error("Cannot read properties of null (reading 'answer')")]
    ELSE [threw |-> FALSE,
          value |-> [answer |-> Get(o.data).answer,
                     model_used |-> Get(o.data).model_used,
                     questions |-> Some(OrEmpty(Get(o.data).questions)),
                     questions_title |-> Get(o.data).questions_title]]

---------------------------------------------------------------------------
(* useChat: the conversation store and the dispatch controller.           *)

\* useState's initial ChatState.
InitialState(sid) ==
    [messages |-> <<>>, isLoading |-> FALSE, error |-> Null,
     sessionId |-> sid, pendingAnswers |-> <<>>, submittedAnswers |-> <<>>]

\* What the callbacks of one render close over (the useCallback
\* dependencies state.sessionId and state.pendingAnswers).
Closure(st) ==
    [sessionId |-> st.sessionId, pendingAnswers |-> st.pendingAnswers]

\* An allQuestions that skips a question whose id it has already collected.
RECURSIVE AllQuestionsDeduplicated(_)
AllQuestionsDeduplicated(msgs) ==
    IF msgs = <<>> THEN <<>>
    ELSE LET last == msgs[Len(msgs)]
             init == AllQuestionsDeduplicated(SubSeq(msgs, 1, Len(msgs) - 1))
             fresh(q) == \A k \in 1..Len(init) : init[k] # q
         IN  IF IsSome(last.questions)
             THEN init \o SelectSeq(Get(last.questions), fresh)
             ELSE init

\* allQuestions: the questions of all messages, in message order.
RECURSIVE AllQuestions(_)
AllQuestions(msgs) ==
    IF msgs = <<>> THEN <<>>
    ELSE LET last == msgs[Len(msgs)]
             init == AllQuestions(SubSeq(msgs, 1, Len(msgs) - 1))
         IN  IF IsSome(last.questions) THEN init \o Get(last.questions)
             ELSE init

\* An updater that adds the given answers to the pending ones.
SetPendingUpdaterMerges(prev, answers) ==
    [prev EXCEPT !.pendingAnswers = @ \o answers]

\* setPendingAnswers' updater.
SetPendingUpdater(prev, answers) == [prev EXCEPT !.pendingAnswers = answers]

\* A userMessage that repeats the questions it answers.
UserMessageWithQuestions(messageText, ts, id, sid) ==
    [message |-> messageText,
     metadata |-> [timestamp |-> ts, user_id |-> "alex_student_001",
                   user_role |-> "student", message_id |-> id,
                   session_id |-> sid],
     questions |-> Some(<<"q1", "q2">>), questionsTitle |-> None,
     cited_paragraphs |-> None]

\* A clearError that also resets the loading flag.
ClearErrorUpdaterResetsLoading(prev) ==
    [prev EXCEPT !.error = Null, !.isLoading = FALSE]

\* clearError's updater.
ClearErrorUpdater(prev) == [prev EXCEPT !.error = Null]

\* The userMessage sendMessage builds.
UserMessage(messageText, ts, id, sid) ==
    [message |-> messageText,
     metadata |-> [timestamp |-> ts, user_id |-> "alex_student_001",
                   user_role |-> "student", message_id |-> id,
                   session_id |-> sid],
     questions |-> None, questionsTitle |-> None, cited_paragraphs |-> None]

\* An aiMessage that leaves the response's questions out.
AiMessageWithoutQuestions(response, ts, id, sid) ==
    [message |-> response.answer,
     metadata |-> [timestamp |-> ts, user_id |-> "ai_tutor",
                   user_role |-> "ai_tutor", message_id |-> id,
                   session_id |-> sid],
     questions |-> None,
     questionsTitle |-> None,
     cited_paragraphs |-> None]

\* The aiMessage both dispatches build from a TutorResponse.
AiMessage(response, ts, id, sid) ==
    [message |-> response.answer,
     metadata |-> [timestamp |-> ts, user_id |-> "ai_tutor",
                   user_role |-> "ai_tutor", message_id |-> id,
                   session_id |-> sid],
     questions |-> response.questions,
     questionsTitle |-> response.questions_title,
     cited_paragraphs |-> None]

\* sendMessage's optimistic updater without "pendingAnswers: []".
SendUpdaterKeepsPending(prev, userMessage, answersToSend) ==
    [prev EXCEPT !.messages = Append(@, userMessage),
                 !.isLoading = TRUE,
                 !.error = Null,
                 !.submittedAnswers = @ \o answersToSend]

\* sendMessage's optimistic updater.
SendUpdater(prev, userMessage, answersToSend) ==
    [prev EXCEPT !.messages = Append(@, userMessage),
                 !.isLoading = TRUE,
                 !.error = Null,
                 !.pendingAnswers = <<>>,
                 !.submittedAnswers = @ \o answersToSend]

\* submitAnswersOnly's optimistic updater without "...prev.submittedAnswers".
SubmitUpdaterReplacesLocked(prev, answersToSend) ==
    [prev EXCEPT !.isLoading = TRUE,
                 !.error = Null,
                 !.pendingAnswers = <<>>,
                 !.submittedAnswers = answersToSend]

\* A submitAnswersOnly that shows an empty requester message.
SubmitUpdaterShowsMessage(prev, answersToSend) ==
    [prev EXCEPT !.messages = Append(@, UserMessage(<<>>, 0, 0, prev.sessionId)),
                 !.isLoading = TRUE,
                 !.error = Null,
                 !.pendingAnswers = <<>>,
                 !.submittedAnswers = @ \o answersToSend]

\* submitAnswersOnly's optimistic updater.
SubmitUpdater(prev, answersToSend) ==
    [prev EXCEPT !.isLoading = TRUE,
                 !.error = Null,
                 !.pendingAnswers = <<>>,
                 !.submittedAnswers = @ \o answersToSend]

\* A request that draws a session id of its own.
SendRequestNewSession(messageText, sid, answersToSend) ==
    [question |-> messageText, session_id |-> "fresh",
     question_answers |-> IF Len(answersToSend) > 0 THEN Some(answersToSend)
                          ELSE None]

\* The request sendMessage passes to tutorApi.sendMessage.
SendRequest(messageText, sid, answersToSend) ==
    [question |-> messageText, session_id |-> sid,
     question_answers |-> IF Len(answersToSend) > 0 THEN Some(answersToSend)
                          ELSE None]

\* The request submitAnswersOnly passes to tutorApi.sendMessage.
SubmitRequest(sid, answersToSend) ==
    [question |-> <<>>, session_id |-> sid,
     question_answers |-> Some(answersToSend)]

\* An updater that puts the tutor message in front of the conversation.
SuccessUpdaterPrepends(prev, aiMessage) ==
    [prev EXCEPT !.messages = <<aiMessage>> \o @, !.isLoading = FALSE]

\* An updater that discards a response that arrives after a later
\* dispatch's response.
SuccessUpdaterDropsLate(prev, aiMessage) ==
    IF prev.messages # <<>>
       /\ prev.messages[Len(prev.messages)].metadata.user_role = "ai_tutor"
    THEN [prev EXCEPT !.isLoading = FALSE]
    ELSE [prev EXCEPT !.messages = Append(@, aiMessage), !.isLoading = FALSE]

\* The updater after a resolved call without "isLoading: false".
SuccessUpdaterKeepsLoading(prev, aiMessage) ==
    [prev EXCEPT !.messages = Append(@, aiMessage)]

\* The updater after a resolved call.
SuccessUpdater(prev, aiMessage) ==
    [prev EXCEPT !.messages = Append(@, aiMessage), !.isLoading = FALSE]

\* A catch block that takes the last message back.
FailureUpdaterDropsMessage(prev, thrown, fallback) ==
    [prev EXCEPT !.isLoading = FALSE,
                 !.error = IF thrown.isError THEN thrown.message
                           ELSE fallback,
                 !.messages = SubSeq(@, 1, Len(@) - 1)]

\* A catch block that undoes the optimistic lock.
FailureUpdaterRollsBack(prev, thrown, fallback) ==
    [prev EXCEPT !.isLoading = FALSE,
                 !.error = IF thrown.isError THEN thrown.message
                           ELSE fallback,
                 !.pendingAnswers = prev.submittedAnswers,
                 !.submittedAnswers = <<>>]

\* A catch block that leaves the loading flag set.
FailureUpdaterKeepsLoading(prev, thrown, fallback) ==
    [prev EXCEPT !.error = IF thrown.isError THEN thrown.message
                           ELSE fallback]

\* The catch block's updater; fallback is the dispatch's generic text.
FailureUpdater(prev, thrown, fallback) ==
    [prev EXCEPT !.isLoading = FALSE,
                 !.error = IF thrown.isError THEN thrown.message
                           ELSE fallback]

Fallback(kind) ==
    IF kind = "sendMessage" THEN "Failed to send message"
    ELSE "Failed to submit answers"

\* A dispatch without its catch block: a rejected call rejects the promise.
DispatchPromiseUncaught(threw) == IF threw THEN "rejected" ELSE "fulfilled"

\* How the promise returned by sendMessage/submitAnswersOnly settles once
\* the awaited call has settled: the try/catch lets nothing escape.
DispatchPromise(threw) == "fulfilled"

\* submitAnswersOnly's guard: TRUE when the call goes on.
SubmitGuard(closure) == Len(closure.pendingAnswers) # 0

\* One entry of dispatches: the request issued, where the dispatch stands
\* (awaiting | resolved | failed), how the promise returned to the caller
\* stands (pending | fulfilled | rejected), and the message ids of its
\* requester message and of its reply, when it has them.
NewDispatch(kind, request, userMessageId) ==
    [kind |-> kind, request |-> request, phase |-> "awaiting",
     promise |-> "pending", userMessage |-> userMessageId, reply |-> None]

Awaiting == {i \in 1..Len(dispatches) : dispatches[i].phase = "awaiting"}

\* The synchronous part of sendMessage(messageText), called on the
\* callbacks of the render `closure`, at clock reading ts.
SendMessageCall(closure, messageText, ts) ==
    LET answersToSend == closure.pendingAnswers
        userMessage == UserMessage(messageText, ts, uuids + 1,
                                   closure.sessionId)
    IN  /\ state' = SendUpdater(state, userMessage, answersToSend)
        /\ dispatches' = Append(dispatches,
               NewDispatch("sendMessage",
                   SendRequest(messageText, closure.sessionId, answersToSend),
                   Some(uuids + 1)))
        /\ now' = ts
        /\ uuids' = uuids + 1

\* The synchronous part of submitAnswersOnly() past its guard.
SubmitAnswersOnlyCall(closure) ==
    LET answersToSend == closure.pendingAnswers
    IN  /\ state' = SubmitUpdater(state, answersToSend)
        /\ dispatches' = Append(dispatches,
               NewDispatch("submitAnswersOnly",
                   SubmitRequest(closure.sessionId, answersToSend), None))
        /\ UNCHANGED <<now, uuids>>

\* The continuation of dispatch i after its call resolved with response.
ResolvedContinuation(i, response, ts) ==
    LET aiMessage == AiMessage(response, ts, uuids + 1,
                               dispatches[i].request.session_id)
    IN  /\ state' = SuccessUpdater(state, aiMessage)
        /\ dispatches' = [dispatches EXCEPT ![i].phase = "resolved",
                                            ![i].promise = DispatchPromise(FALSE),
                                            ![i].reply = Some(uuids + 1)]
        /\ now' = ts
        /\ uuids' = uuids + 1

\* A continuation that issues the rejected request once more.
RejectedContinuationRetries(i, thrown) ==
    /\ state' = FailureUpdater(state, thrown, Fallback(dispatches[i].kind))
    /\ dispatches' = Append([dispatches EXCEPT ![i].phase = "failed",
                                               ![i].promise = "pending"],
                            NewDispatch(dispatches[i].kind,
                                        dispatches[i].request, None))
    /\ UNCHANGED <<now, uuids>>

\* The continuation of dispatch i after its call rejected with thrown.
RejectedContinuation(i, thrown) ==
    /\ state' = FailureUpdater(state, thrown, Fallback(dispatches[i].kind))
    /\ dispatches' = [dispatches EXCEPT ![i].phase = "failed",
                                        ![i].promise = DispatchPromise(TRUE)]
    /\ UNCHANGED <<now, uuids>>

\* The clock reading a handler may see: every reading of Date.now() is
\* one tick later than the reading before it.
ClockReadings == {now + 1}

\* setPendingAnswers was given a questionId that is locked.
BreaksPrecondition(answers) ==
    QuestionIdsOf(answers) \cap QuestionIdsOf(state.submittedAnswers) # {}

---------------------------------------------------------------------------
(* Spec: the hook called by an arbitrary caller.                           *)

Init ==
    /\ \E sid \in SessionIds :
          /\ state = InitialState(sid)
          /\ rendered = Closure(InitialState(sid))
    /\ dispatches = <<>>
    /\ now = 0
    /\ uuids = 1
    /\ cards = <<>>
    /\ preBroken = FALSE

\* React re-renders: the callbacks are created anew over the current state.
Render ==
    /\ rendered # Closure(state)
    /\ rendered' = Closure(state)
    /\ UNCHANGED <<state, dispatches, now, uuids, cards, preBroken>>

\* setPendingAnswers(answers)
SetPendingAnswersCall(answers) ==
    /\ state' = SetPendingUpdater(state, answers)
    /\ preBroken' = (preBroken \/ BreaksPrecondition(answers))
    /\ UNCHANGED <<rendered, dispatches, now, uuids, cards>>

SetPendingAnswers == \E answers \in AnswerLists : SetPendingAnswersCall(answers)

SendMessage ==
    \E messageText \in Texts, ts \in ClockReadings :
        /\ Len(dispatches) < MaxDispatches
        /\ SendMessageCall(rendered, messageText, ts)
        /\ UNCHANGED <<rendered, cards, preBroken>>

SubmitAnswersOnly ==
    IF SubmitGuard(rendered)
    THEN /\ Len(dispatches) < MaxDispatches
         /\ SubmitAnswersOnlyCall(rendered)
         /\ UNCHANGED <<rendered, cards, preBroken>>
    ELSE UNCHANGED vars

ClearError ==
    /\ state' = ClearErrorUpdater(state)
    /\ UNCHANGED <<rendered, dispatches, now, uuids, cards, preBroken>>

CallResolves ==
    \E i \in Awaiting, o \in PostOutcomes, ts \in ClockReadings :
        /\ ~TutorApiSendMessage(o).threw
        /\ ResolvedContinuation(i, TutorApiSendMessage(o).value, ts)
        /\ UNCHANGED <<rendered, cards, preBroken>>

CallRejects ==
    \E i \in Awaiting, o \in PostOutcomes :
        /\ TutorApiSendMessage(o).threw
        /\ RejectedContinuation(i, TutorApiSendMessage(o).value)
        /\ UNCHANGED <<rendered, cards, preBroken>>

Next ==
    \/ Render
    \/ SetPendingAnswers
    \/ SendMessage
    \/ SubmitAnswersOnly
    \/ ClearError
    \/ CallResolves
    \/ CallRejects

Spec == Init /\ [][Next]_vars

\* The call of dispatch i settles: its promise resolves, or rejects (at
\* the latest when axios gives the request up after its timeout of 30 s).
CallSettlesFor(i) ==
    /\ i \in Awaiting
    /\ CallResolves \/ CallRejects
    /\ dispatches'[i].phase # "awaiting"

SpecLive == Spec /\ \A i \in 1..MaxDispatches : WF_vars(CallSettlesFor(i))

---------------------------------------------------------------------------
(* The presentation layer: App, ChatMessage, ChatInput, QuestionCard.      *)

\* String.prototype.trim on a text (a sequence of characters).
RECURSIVE TrimStart(_)
TrimStart(s) ==
    IF s # <<>> /\ s[1] = " " THEN TrimStart(Tail(s)) ELSE s

RECURSIVE TrimEnd(_)
TrimEnd(s) ==
    IF s # <<>> /\ s[Len(s)] = " " THEN TrimEnd(SubSeq(s, 1, Len(s) - 1))
    ELSE s

\* A trim that leaves trailing white space.
TrimStartOnly(s) == TrimStart(s)

Trim(s) == TrimEnd(TrimStart(s))

\* What the user may have typed into ChatInput's textarea.
RawInputs == {<<>>, <<" ">>, <<"h">>, <<" ", "h", " ">>}

\* Map.prototype.set on an insertion-ordered map, kept as the sequence of
\* its entries.
MapSet(m, q, o) ==
    IF \E k \in 1..Len(m) : m[k].questionId = q
    THEN [k \in 1..Len(m) |->
            IF m[k].questionId = q
            THEN [questionId |-> q, selectedOptionId |-> o] ELSE m[k]]
    ELSE Append(m, [questionId |-> q, selectedOptionId |-> o])

\* The answerMap QuestionCard's effect builds from existingAnswers.
RECURSIVE FromExisting(_, _)
FromExisting(existing, lockedIds) ==
    IF existing = <<>> THEN <<>>
    ELSE LET a == existing[Len(existing)]
             init == FromExisting(SubSeq(existing, 1, Len(existing) - 1),
                                  lockedIds)
         IN  IF a.questionId \notin lockedIds
             THEN MapSet(init, a.questionId, a.selectedOptionId)
             ELSE init

\* QuestionCard's effect, run against the props of the render of st.
CardEffect(card, st) ==
    IF Len(st.pendingAnswers) > 0
    THEN [card EXCEPT !.answers =
            FromExisting(st.pendingAnswers, QuestionIdsOf(st.submittedAnswers))]
    ELSE card

\* App and ChatMessage mount a QuestionCard for a message that has questions.
HasCard(msg) == IsSome(msg.questions) /\ Len(Get(msg.questions)) > 0

\* useState's initial values in QuestionCard.
NewCard == [currentIndex |-> 0, answers |-> <<>>]

\* The cards after React has rendered st and run the effects: a card is
\* mounted for every new message that has questions, and the effect runs
\* in a mounted card when its dependencies (existingAnswers, lockedAnswers)
\* are new arrays.
CardsAfterRender(st, depsChanged) ==
    [i \in 1..Len(st.messages) |->
        IF ~HasCard(st.messages[i]) THEN None
        ELSE IF i <= Len(cards) /\ IsSome(cards[i])
        THEN Some(IF depsChanged THEN CardEffect(Get(cards[i]), st)
                  ELSE Get(cards[i]))
        ELSE Some(CardEffect(NewCard, st))]

Mounted == {i \in 1..Len(cards) : IsSome(cards[i])}

\* Props and derived values of the card of message i in the current render.
CardQuestions(i) == Get(state.messages[i].questions)
CurrentQuestion(i) == CardQuestions(i)[Get(cards[i]).currentIndex + 1]
LockedQuestionIds == QuestionIdsOf(state.submittedAnswers)
\* A card that treats no question as locked.
IsCurrentLockedNever(i) == FALSE

IsCurrentLocked(i) == CurrentQuestion(i) \in LockedQuestionIds
PendingAnswerCount(i) == Len(Get(cards[i]).answers)
\* A presentation layer that also disables its inputs while an error is
\* stored.
DisabledWhileError == state.isLoading \/ state.error # Null

\* A presentation layer that never disables its inputs.
DisabledNever == FALSE

\* The disabled prop App gives ChatInput and, through ChatMessage, the cards.
Disabled == state.isLoading

\* lockedAnswersMap.get(id): the last locked entry for id.
LockedSelection(id) ==
    LET ks == {k \in 1..Len(state.submittedAnswers) :
                  state.submittedAnswers[k].questionId = id}
    IN  state.submittedAnswers[CHOOSE k \in ks : \A j \in ks : j <= k]
            .selectedOptionId

\* The option QuestionCard shows as selected for the current question
\* ("" when none).
SelectedOption(i) ==
    LET id == CurrentQuestion(i)
        mine == Get(cards[i]).answers
        ks == {k \in 1..Len(mine) : mine[k].questionId = id}
    IN  IF IsCurrentLocked(i) THEN LockedSelection(id)
        ELSE IF ks = {} THEN ""
        ELSE mine[CHOOSE k \in ks : TRUE].selectedOptionId

\* A handleOptionSelect that does not look at disabled.
SelectGuardIgnoresDisabled(i) == ~IsCurrentLocked(i)

\* A handleOptionSelect that does not look at isCurrentLocked.
SelectGuardIgnoresLock(i) == ~Disabled

\* handleOptionSelect passes its guard.
SelectGuard(i) == ~(Disabled \/ IsCurrentLocked(i))

\* The list handleOptionSelect passes to onAnswersChange.
SelectedAnswers(i, optionId) ==
    MapSet(Get(cards[i]).answers, CurrentQuestion(i), optionId)

\* handleSubmit passes its guard.
CardSubmitGuard(i) == PendingAnswerCount(i) > 0 /\ ~Disabled

\* A handleSend that does not look at disabled.
SendGuardIgnoresDisabled(raw) == Trim(raw) # <<>>

\* ChatInput.handleSend passes its guard.
SendGuard(raw) == Trim(raw) # <<>> /\ ~Disabled

\* React's re-render after an event, with the cards' effects.
RenderAfter(depsChanged) ==
    /\ rendered' = Closure(state')
    /\ cards' = CardsAfterRender(state', depsChanged)

---------------------------------------------------------------------------
(* SpecUI: the application, one user event or settled call per step.       *)

\* A click on option optionId of the current question of card i.
OptionClick(i, optionId) ==
    IF SelectGuard(i)
    THEN /\ state' = SetPendingUpdater(state, SelectedAnswers(i, optionId))
         /\ preBroken' = (preBroken
                          \/ BreaksPrecondition(SelectedAnswers(i, optionId)))
         /\ RenderAfter(TRUE)
         /\ UNCHANGED <<dispatches, now, uuids>>
    ELSE UNCHANGED vars

HandleOptionSelect ==
    \E i \in Mounted, optionId \in OptionIds : OptionClick(i, optionId)

GoToQuestion ==
    \E i \in Mounted : \E index \in -1..Len(CardQuestions(i)) :
        IF index >= 0 /\ index < Len(CardQuestions(i))
        THEN /\ cards' = [cards EXCEPT
                            ![i] = Some([Get(cards[i]) EXCEPT
                                            !.currentIndex = index])]
             /\ UNCHANGED <<state, rendered, dispatches, now, uuids, preBroken>>
        ELSE UNCHANGED vars

HandleSubmit ==
    \E i \in Mounted :
        IF CardSubmitGuard(i) /\ SubmitGuard(rendered)
        THEN /\ Len(dispatches) < MaxUIDispatches
             /\ SubmitAnswersOnlyCall(rendered)
             /\ RenderAfter(TRUE)
             /\ UNCHANGED preBroken
        ELSE UNCHANGED vars

HandleSend ==
    \E raw \in RawInputs, ts \in ClockReadings :
        IF SendGuard(raw)
        THEN /\ Len(dispatches) < MaxUIDispatches
             /\ SendMessageCall(rendered, Trim(raw), ts)
             /\ RenderAfter(TRUE)
             /\ UNCHANGED preBroken
        ELSE UNCHANGED vars

CloseErrorBanner ==
    /\ state.error # Null
    /\ state' = ClearErrorUpdater(state)
    /\ RenderAfter(FALSE)
    /\ UNCHANGED <<dispatches, now, uuids, preBroken>>

ResponseArrives ==
    \E i \in Awaiting, o \in PostOutcomes, ts \in ClockReadings :
        /\ ~TutorApiSendMessage(o).threw
        /\ ResolvedContinuation(i, TutorApiSendMessage(o).value, ts)
        /\ RenderAfter(FALSE)
        /\ UNCHANGED preBroken

RequestFails ==
    \E i \in Awaiting, o \in PostOutcomes :
        /\ TutorApiSendMessage(o).threw
        /\ RejectedContinuation(i, TutorApiSendMessage(o).value)
        /\ RenderAfter(FALSE)
        /\ UNCHANGED preBroken

NextUI ==
    \/ HandleOptionSelect
    \/ GoToQuestion
    \/ HandleSubmit
    \/ HandleSend
    \/ CloseErrorBanner
    \/ ResponseArrives
    \/ RequestFails

SpecUI == Init /\ [][NextUI]_vars

\* Every request settles: a response arrives, the server or the network
\* fails it, or axios gives it up after its timeout of 30 s.
CallSettles == ResponseArrives \/ RequestFails

SpecUILive == SpecUI /\ WF_vars(CallSettles)

---------------------------------------------------------------------------
(* Properties.                                                             *)

IsPrefix(s, t) == Len(s) <= Len(t) /\ SubSeq(t, 1, Len(s)) = s

\* The step is the optimistic commit of a dispatch of this kind.
Committed(kind) ==
    /\ Len(dispatches') = Len(dispatches) + 1
    /\ dispatches'[Len(dispatches')].kind = kind

\* The dispatch a commit step has added.
NewestDispatch == dispatches'[Len(dispatches')]

\* What a commit step has appended to submittedAnswers.
NewlyLocked ==
    SubSeq(state'.submittedAnswers, Len(state.submittedAnswers) + 1,
           Len(state'.submittedAnswers))

HasMessage(st, id) ==
    \E k \in 1..Len(st.messages) : st.messages[k].metadata.message_id = id

AllIn(answers, locked) ==
    \A k \in 1..Len(answers) :
        \E j \in 1..Len(locked) : locked[j] = answers[k]

\* C1: as long as setPendingAnswers has never been given a questionId that
\* was locked at the time, no questionId is both in pendingAnswers and in
\* submittedAnswers, whatever the interleaving of calls, renders and
\* settled requests.
C1_PendingLockedDisjoint ==
    ~preBroken =>
        QuestionIdsOf(state.pendingAnswers)
            \cap QuestionIdsOf(state.submittedAnswers) = {}

\* C1's case: two dispatches overlap, answers are locked and another
\* question has a pending answer.
C1_Witness ==
    /\ ~preBroken
    /\ Cardinality(Awaiting) = 2
    /\ state.pendingAnswers # <<>>
    /\ state.submittedAnswers # <<>>

\* C2: QuestionCard never passes onAnswersChange (setPendingAnswers) a
\* list with a questionId that is in lockedAnswers.
C2_NeverPassesLocked == ~preBroken

\* C3: every step leaves the former submittedAnswers as a prefix of the
\* new one: no locked entry is removed, changed or reordered.
C3_LockedOnlyGrows ==
    [][IsPrefix(state.submittedAnswers, state'.submittedAnswers)]_vars

\* C3's case: answers were locked by two dispatches, one of which failed
\* and one of which resolved.
C3_Witness ==
    /\ Len(state.submittedAnswers) >= 2
    /\ \E i, j \in 1..Len(dispatches) :
          /\ dispatches[i].phase = "failed"
          /\ dispatches[j].phase = "resolved"

\* C4: the commit of sendMessage, invoked with Pending = P and Locked = L,
\* appends the requester message, sets isLoading, clears error, empties
\* Pending and makes Locked = L followed by P, all in one step.
C4_SendCommit ==
    [][Committed("sendMessage") =>
          /\ Len(state'.messages) = Len(state.messages) + 1
          /\ SubSeq(state'.messages, 1, Len(state.messages)) = state.messages
          /\ state'.messages[Len(state'.messages)].metadata.user_role
                = "student"
          /\ state'.isLoading = TRUE
          /\ state'.error = Null
          /\ state'.pendingAnswers = <<>>
          /\ state'.submittedAnswers
                = state.submittedAnswers \o state.pendingAnswers]_vars

\* C5: the step in which a dispatch fails changes only isLoading (to
\* false) and error (to the failure text); afterwards the dispatch's
\* requester message is still in messages and the answers it locked are
\* still in submittedAnswers.
C5_FailureKeepsCommit ==
    [][\A i \in Awaiting :
          dispatches'[i].phase = "failed" =>
              /\ state' = [state EXCEPT !.isLoading = FALSE,
                                        !.error = state'.error]
              /\ state'.error # Null
              /\ IsSome(dispatches[i].userMessage) =>
                    HasMessage(state', Get(dispatches[i].userMessage))
              /\ AllIn(OrEmpty(dispatches[i].request.question_answers),
                       state'.submittedAnswers)]_vars

\* C5's case: a sendMessage that carried answers has failed.
C5_Witness ==
    \E i \in 1..Len(dispatches) :
        /\ dispatches[i].kind = "sendMessage"
        /\ dispatches[i].phase = "failed"
        /\ IsSome(dispatches[i].request.question_answers)
        /\ state.error # Null
        /\ state.pendingAnswers = <<>>

\* C6: the step in which a dispatch's call settles, resolved or rejected,
\* fulfils the promise the dispatch returned and sets isLoading to false.
C6_NoFailureEscapes ==
    [][\A i \in Awaiting :
          dispatches'[i].phase # "awaiting" =>
              /\ dispatches'[i].promise = "fulfilled"
              /\ state'.isLoading = FALSE]_vars

\* C6's case: one dispatch has resolved and another has failed on a
\* response without a body.
C6_Witness ==
    /\ \E i, j \in 1..Len(dispatches) :
          /\ dispatches[i].phase = "resolved"
          /\ dispatches[j].phase = "failed"
    /\ state.error = "Cannot read properties of null (reading 'answer')"

\* C7: in the application isLoading is true exactly when a dispatch has
\* made its commit and its call has not settled.
C7_LoadingIffAwaiting == state.isLoading <=> (Awaiting # {})

\* C7's case: a second dispatch is awaiting its response after the first
\* one has settled.
C7_Witness ==
    /\ state.isLoading
    /\ Len(dispatches) = 2
    /\ dispatches[1].phase # "awaiting"

\* C8: when Pending is empty no step is a commit of submitAnswersOnly:
\* the call changes nothing and issues no request.
C8_EmptySubmitIsNoOp ==
    [][state.pendingAnswers = <<>> => ~Committed("submitAnswersOnly")]_vars

\* C9: the commit of submitAnswersOnly, invoked with non-empty Pending = P,
\* leaves messages unchanged, sets isLoading, clears error, empties
\* Pending, makes Locked = old Locked followed by P, and sends question ""
\* with P; the step in which its call resolves appends exactly one
\* tutor-role message.
C9_SubmitCommit ==
    [][/\ (Committed("submitAnswersOnly") /\ state.pendingAnswers # <<>>) =>
            /\ state'.messages = state.messages
            /\ state'.isLoading = TRUE
            /\ state'.error = Null
            /\ state'.pendingAnswers = <<>>
            /\ state'.submittedAnswers
                  = state.submittedAnswers \o state.pendingAnswers
            /\ NewestDispatch.request.question = <<>>
            /\ NewestDispatch.request.question_answers
                  = Some(state.pendingAnswers)
       /\ \A i \in Awaiting :
            (/\ dispatches[i].kind = "submitAnswersOnly"
             /\ dispatches'[i].phase = "resolved") =>
                /\ Len(state'.messages) = Len(state.messages) + 1
                /\ SubSeq(state'.messages, 1, Len(state.messages))
                      = state.messages
                /\ state'.messages[Len(state'.messages)].metadata.user_role
                      = "ai_tutor"]_vars

\* C10: in the commit of a dispatch, the answers appended to Locked, the
\* answers the request carries and the answers removed from Pending are
\* the same list.
C10_LockedSentCleared ==
    [][(Committed("sendMessage") \/ Committed("submitAnswersOnly")) =>
          /\ state'.pendingAnswers = <<>>
          /\ NewlyLocked = state.pendingAnswers
          /\ OrEmpty(NewestDispatch.request.question_answers)
                = state.pendingAnswers]_vars

LastMessage(st) == st.messages[Len(st.messages)]

\* The step in which the call of dispatch i resolves.
Resolves(i) == i \in Awaiting /\ dispatches'[i].phase = "resolved"

\* The step in which the call of dispatch i fails.
Fails(i) == i \in Awaiting /\ dispatches'[i].phase = "failed"

\* C11: the request of sendMessage(messageText) carries question =
\* messageText and the store's sessionId; it carries the captured answers
\* (the ones the send locks) if and only if they are non-empty, and when
\* Pending is empty at the send it has no answers field and the send
\* leaves Locked and Pending unchanged.
C11_SendRequest ==
    [][Committed("sendMessage") =>
          /\ NewestDispatch.request.question = LastMessage(state').message
          /\ NewestDispatch.request.session_id = state.sessionId
          /\ NewestDispatch.request.question_answers
                = IF NewlyLocked # <<>> THEN Some(NewlyLocked) ELSE None
          /\ state.pendingAnswers = <<>> =>
                /\ NewestDispatch.request.question_answers = None
                /\ state'.submittedAnswers = state.submittedAnswers
                /\ state'.pendingAnswers = state.pendingAnswers]_vars

\* C12: the step in which a dispatch's call resolves appends exactly one
\* tutor-role message, whose text, questions and questionsTitle are those
\* of a response tutorApi.sendMessage can resolve with, and sets isLoading
\* to false; pendingAnswers, submittedAnswers, error and sessionId are
\* unchanged.
C12_SuccessAppendsTutorMessage ==
    [][\A i \in 1..Len(dispatches) :
          Resolves(i) =>
              \E o \in PostOutcomes :
                  /\ ~TutorApiSendMessage(o).threw
                  /\ LET response == TutorApiSendMessage(o).value
                         m == LastMessage(state')
                     IN  /\ state' = [state EXCEPT
                                         !.messages = Append(@, m),
                                         !.isLoading = FALSE]
                         /\ m.metadata.user_role = "ai_tutor"
                         /\ m.message = response.answer
                         /\ m.questions = response.questions
                         /\ m.questionsTitle = response.questions_title]_vars

\* C12's case: a response with questions has resolved while an error from
\* an overlapping dispatch was stored and an answer was pending.
C12_Witness ==
    /\ state.messages # <<>>
    /\ LastMessage(state).metadata.user_role = "ai_tutor"
    /\ LastMessage(state).questions = Some(<<"q1", "q2">>)
    /\ LastMessage(state).questionsTitle = Some("quiz")
    /\ state.error # Null
    /\ state.pendingAnswers # <<>>
    /\ state.submittedAnswers # <<>>
    /\ ~state.isLoading

\* C13: when the body of a successful response has cited_paragraphs, the
\* tutor message appended for it has the same cited_paragraphs.
C13_CitedParagraphsKept ==
    [][\A i \in 1..Len(dispatches) : \A o \in PostOutcomes :
          (/\ Resolves(i)
           /\ ~TutorApiSendMessage(o).threw
           /\ LastMessage(state').message = TutorApiSendMessage(o).value.answer
           /\ LastMessage(state').questions
                 = TutorApiSendMessage(o).value.questions
           /\ LastMessage(state').questionsTitle
                 = TutorApiSendMessage(o).value.questions_title
           /\ IsSome(Get(o.data).cited_paragraphs)) =>
              LastMessage(state').cited_paragraphs
                  = Get(o.data).cited_paragraphs]_vars

\* C14: messages is append-only: every step leaves the former messages
\* as a prefix of the new ones.
C14_MessagesAppendOnly ==
    [][IsPrefix(state.messages, state'.messages)]_vars

\* C14's case: of two overlapping sendMessage dispatches one has failed
\* and the other has resolved.
C14_Witness ==
    /\ Len(state.messages) = 3
    /\ \E i, j \in 1..Len(dispatches) :
          /\ dispatches[i].kind = "sendMessage"
          /\ dispatches[i].phase = "failed"
          /\ HasMessage(state, Get(dispatches[i].userMessage))
          /\ dispatches[j].phase = "resolved"

\* C15: message timestamps are non-decreasing along messages.
C15_TimestampsOrdered ==
    \A j, k \in 1..Len(state.messages) :
        j < k => state.messages[j].metadata.timestamp
                    <= state.messages[k].metadata.timestamp

\* C15's case: the second of two overlapping dispatches has its response
\* while the first is still awaiting its own.
C15_Witness ==
    /\ Len(dispatches) = 2
    /\ dispatches[1].phase = "awaiting"
    /\ dispatches[2].phase = "resolved"
    /\ Len(state.messages) = 3

\* The questions of the messages that carry questions, one message after
\* the other.
RECURSIVE Concatenation(_)
Concatenation(msgs) ==
    IF msgs = <<>> THEN <<>>
    ELSE OrEmpty(Head(msgs).questions) \o Concatenation(Tail(msgs))

\* C16: allQuestions is the concatenation, in message order, of the
\* messages' questions, with nothing left out for a repeated id, and
\* every step leaves the former allQuestions as a prefix of the new one.
C16_AllQuestionsConcatenates ==
    /\ [](AllQuestions(state.messages) = Concatenation(state.messages))
    /\ [][IsPrefix(AllQuestions(state.messages),
                   AllQuestions(state'.messages))]_vars

\* C16's case: two tutor messages carry the questions q1, q2, with other
\* messages around them.
C16_Witness ==
    /\ AllQuestions(state.messages) = <<"q1", "q2", "q1", "q2">>
    /\ Len(state.messages) >= 3

\* C17: in the application a dispatch starts only while isLoading is
\* false, and at most one dispatch is awaiting its response.
C17_OneDispatchInFlight ==
    /\ [](Cardinality(Awaiting) <= 1)
    /\ [][Len(dispatches') > Len(dispatches) => ~state.isLoading]_vars

\* C17's case: a dispatch is awaiting while a card still holds an answer
\* its submit button would send.
C17_Witness ==
    /\ state.isLoading
    /\ Cardinality(Awaiting) = 1
    /\ \E i \in Mounted : PendingAnswerCount(i) > 0

\* C18: a dispatch invoked while an earlier one is awaiting makes its own
\* commit and issues its own request, leaving the earlier dispatches as
\* they are; and every call that resolves appends its tutor message at
\* the end of messages, whatever has been dispatched or resolved since.
C18_OverlapsNotRejected ==
    [][/\ (Len(dispatches') > Len(dispatches) /\ Awaiting # {}) =>
            /\ NewestDispatch.phase = "awaiting"
            /\ SubSeq(dispatches', 1, Len(dispatches)) = dispatches
            /\ state'.isLoading
            /\ state'.pendingAnswers = <<>>
       /\ \A i \in 1..Len(dispatches) :
            Resolves(i) =>
                /\ Len(state'.messages) = Len(state.messages) + 1
                /\ LastMessage(state').metadata.user_role = "ai_tutor"
                /\ LastMessage(state').metadata.message_id
                      = Get(dispatches'[i].reply)]_vars

\* C18's case: two dispatches overlapped and the response of the second
\* was appended before the response of the first.
C18_Witness ==
    /\ Len(dispatches) = 2
    /\ Len(state.messages) = 4
    /\ state.messages[3].metadata.message_id = Get(dispatches[2].reply)
    /\ state.messages[4].metadata.message_id = Get(dispatches[1].reply)

\* C19: sessionId never changes, and every message's session_id and every
\* request's session_id is the store's sessionId.
C19_SessionIdStable ==
    /\ [][state'.sessionId = state.sessionId]_vars
    /\ [](/\ \A k \in 1..Len(state.messages) :
                state.messages[k].metadata.session_id = state.sessionId
          /\ \A i \in 1..Len(dispatches) :
                dispatches[i].request.session_id = state.sessionId)

\* C19's case: both kinds of dispatch have issued a request and requester
\* and tutor messages are stored.
C19_Witness ==
    /\ \E i, j \in 1..Len(dispatches) :
          /\ dispatches[i].kind = "sendMessage"
          /\ dispatches[j].kind = "submitAnswersOnly"
    /\ \E j, k \in 1..Len(state.messages) :
          /\ state.messages[j].metadata.user_role = "student"
          /\ state.messages[k].metadata.user_role = "ai_tutor"

\* What the claim lets error be after the failure o of a dispatch of this
\* kind: the text the failure carries, or the dispatch's fallback.
ClaimedError(o, kind) ==
    IF o.ok THEN TutorApiSendMessage(o).value.message
    ELSE IF o.respError # "" THEN o.respError
    ELSE IF o.message # "" THEN o.message
    ELSE Fallback(kind)

\* C20 (as stated): the step in which a dispatch fails sets error to the message text
\* of the failure when it carries one, and otherwise to 'Failed to send
\* message' (sendMessage) or 'Failed to submit answers'
\* (submitAnswersOnly), whatever error held before.
C20_ErrorTextOrFallback ==
    [][\A i \in 1..Len(dispatches) :
          Fails(i) =>
              \E o \in PostOutcomes :
                  /\ TutorApiSendMessage(o).threw
                  /\ state'.error = ClaimedError(o, dispatches[i].kind)]_vars

\* The text a failure o ends up as when no text of its own is replaced by
\* the transport's default.
TransportError(o) ==
    IF o.ok THEN TutorApiSendMessage(o).value.message
    ELSE IF o.respError # "" THEN o.respError
    ELSE IF o.message # "" THEN o.message
    ELSE "An error occurred"

\* C20 (amended): the step in which a dispatch fails sets error to the
\* message text of the failure when it carries one and otherwise to the
\* transport's 'An error occurred', for both kinds of dispatch and
\* whatever error held before; the controller's own fallback texts are
\* never stored.
C20_ErrorTextOrTransportDefault ==
    [][\A i \in 1..Len(dispatches) :
          Fails(i) =>
              /\ \E o \in PostOutcomes :
                    /\ TutorApiSendMessage(o).threw
                    /\ state'.error = TransportError(o)
              /\ state'.error # Fallback(dispatches[i].kind)]_vars

\* C20's case: a submitAnswersOnly has failed without a message text
\* after another dispatch had failed.
C20_Witness ==
    /\ Len(dispatches) = 2
    /\ dispatches[1].phase = "failed"
    /\ dispatches[2].phase = "failed"
    /\ dispatches[2].kind = "submitAnswersOnly"
    /\ state.error = "An error occurred"

\* The options Pending holds for question q.
PendingOptions(st, q) ==
    {st.pendingAnswers[k].selectedOptionId :
        k \in {j \in 1..Len(st.pendingAnswers) :
                  st.pendingAnswers[j].questionId = q}}

\* The step is an option click that has passed its guard: Pending is
\* replaced and no dispatch is started.
Selects ==
    /\ dispatches' = dispatches
    /\ state'.pendingAnswers # state.pendingAnswers

\* C21: in the application Pending never holds two answers for one
\* questionId, and an option click changes the pending answer of one
\* question only, also with several cards on screen.
C21_OnePendingAnswerPerQuestion ==
    /\ [](\A j, k \in 1..Len(state.pendingAnswers) :
             state.pendingAnswers[j].questionId
                 = state.pendingAnswers[k].questionId => j = k)
    /\ [][Selects =>
            \E q \in QuestionIds :
                /\ Cardinality(PendingOptions(state', q)) = 1
                /\ \A r \in QuestionIds \ {q} :
                      PendingOptions(state', r) = PendingOptions(state, r)]_vars

\* The user types a text and sends it, and the send starts a dispatch.
SendStarts ==
    /\ HandleSend
    /\ Len(dispatches') = Len(dispatches) + 1
    /\ state'.isLoading

\* C22: whenever a dispatch has failed and none is outstanding, isLoading
\* is false, the inputs are enabled and a new send can be started; and
\* isLoading never stays true forever.
C22_FailureRecoverable ==
    /\ []((/\ Awaiting = {}
           /\ \E i \in 1..Len(dispatches) : dispatches[i].phase = "failed"
           /\ Len(dispatches) < MaxUIDispatches) =>
             (~state.isLoading /\ ~Disabled /\ ENABLED SendStarts))
    /\ (state.isLoading ~> ~state.isLoading)

\* C22's case: a dispatch started after a failed one has gone through to
\* its tutor message.
C22_Witness ==
    /\ Len(dispatches) = 2
    /\ dispatches[1].phase = "failed"
    /\ dispatches[2].phase = "resolved"
    /\ LastMessage(state).metadata.message_id = Get(dispatches[2].reply)
    /\ ~state.isLoading

\* C23: a dispatch has one request, which no step changes; the step in
\* which a dispatch fails issues no request and leaves Pending as it is;
\* a request is issued only by the commit of a new dispatch.
C23_NoRetry ==
    [][/\ Len(dispatches') \in {Len(dispatches), Len(dispatches) + 1}
       /\ \A i \in 1..Len(dispatches) :
            /\ dispatches'[i].request = dispatches[i].request
            /\ dispatches'[i].kind = dispatches[i].kind
       /\ Len(dispatches') > Len(dispatches) =>
            /\ NewestDispatch.phase = "awaiting"
            /\ state'.isLoading
            /\ state'.pendingAnswers = <<>>
       /\ \A i \in 1..Len(dispatches) :
            Fails(i) =>
                /\ Len(dispatches') = Len(dispatches)
                /\ \A j \in 1..Len(dispatches) :
                      j # i => dispatches'[j] = dispatches[j]
                /\ state'.pendingAnswers = state.pendingAnswers
                /\ state'.submittedAnswers = state.submittedAnswers]_vars

\* C23's case: the only dispatch, which carried an answer, has failed and
\* the hook has been rendered since.
C23_Witness ==
    /\ Len(dispatches) = 1
    /\ dispatches[1].phase = "failed"
    /\ IsSome(dispatches[1].request.question_answers)
    /\ state.pendingAnswers = <<>>
    /\ state.submittedAnswers # <<>>
    /\ rendered = Closure(state)

\* C24: setPendingAnswers(answers) makes pendingAnswers the given list,
\* whatever is pending or locked, and changes nothing else: the other
\* fields of the state and the requests issued are as before.
C24_SetPendingReplaces ==
    [][\A answers \in AnswerLists :
          SetPendingAnswersCall(answers) =>
              /\ state' = [state EXCEPT !.pendingAnswers = answers]
              /\ dispatches' = dispatches]_vars

\* C24's case: while a dispatch is awaiting, setPendingAnswers has
\* replaced Pending with an answer to a question that is locked.
C24_Witness ==
    /\ preBroken
    /\ state.isLoading
    /\ Awaiting # {}
    /\ state.pendingAnswers = <<Answer("q1", "a")>>
    /\ state.submittedAnswers = <<Answer("q1", "a")>>

\* The options lockedAnswers records for question q.
LockedOptions(q) ==
    {state.submittedAnswers[k].selectedOptionId :
        k \in {j \in 1..Len(state.submittedAnswers) :
                  state.submittedAnswers[j].questionId = q}}

\* C25: while the current question of a card is locked, a click on any of
\* its options changes neither the store nor any card's local answers,
\* and the option the card shows as selected is one lockedAnswers records
\* for the question.
C25_LockedQuestionReadOnly ==
    /\ [](\A i \in Mounted :
             IsCurrentLocked(i) =>
                 SelectedOption(i) \in LockedOptions(CurrentQuestion(i)))
    /\ [][\A i \in Mounted, optionId \in OptionIds :
             (IsCurrentLocked(i) /\ OptionClick(i, optionId)) =>
                 UNCHANGED <<state, cards, dispatches>>]_vars

\* C25's case: a card shows a locked question while its inputs are
\* enabled, and another answer of the card is pending.
C25_Witness ==
    \E i \in Mounted :
        /\ IsCurrentLocked(i)
        /\ ~Disabled
        /\ SelectedOption(i) = "b"
        /\ state.pendingAnswers # <<>>

\* The text between the first and the last character of raw that is not
\* a space.
Trimmed(raw) ==
    LET ks == {k \in 1..Len(raw) : raw[k] # " "}
    IN  IF ks = {} THEN <<>>
        ELSE SubSeq(raw, CHOOSE k \in ks : \A j \in ks : k <= j,
                         CHOOSE k \in ks : \A j \in ks : j <= k)

\* C26: in the application every requester message has a non-empty text
\* that is the trimmed text of an input, and every sendMessage request
\* has such a question.
C26_SentTextTrimmed ==
    /\ \A k \in 1..Len(state.messages) :
          state.messages[k].metadata.user_role = "student" =>
              /\ state.messages[k].message # <<>>
              /\ \E raw \in RawInputs : state.messages[k].message = Trimmed(raw)
    /\ \A i \in 1..Len(dispatches) :
          dispatches[i].kind = "sendMessage" =>
              /\ dispatches[i].request.question # <<>>
              /\ \E raw \in RawInputs :
                    dispatches[i].request.question = Trimmed(raw)

\* C26's case: two texts have been sent from ChatInput.
C26_Witness ==
    /\ Len(state.messages) >= 3
    /\ state.messages[1].metadata.user_role = "student"
    /\ state.messages[1].message = <<"h">>
    /\ \E i, j \in 1..Len(dispatches) :
          /\ i # j
          /\ dispatches[i].kind = "sendMessage"
          /\ dispatches[j].kind = "sendMessage"

\* C27: every requester message carries no questions; a message that
\* carries questions is a tutor message.
C27_OnlyTutorMessagesCarryQuestions ==
    \A k \in 1..Len(state.messages) :
        /\ state.messages[k].metadata.user_role = "student" =>
              state.messages[k].questions = None
        /\ IsSome(state.messages[k].questions) =>
              state.messages[k].metadata.user_role = "ai_tutor"

\* C27's case: a requester message stands after a tutor message that
\* carries questions.
C27_Witness ==
    \E j, k \in 1..Len(state.messages) :
        /\ j < k
        /\ state.messages[j].metadata.user_role = "ai_tutor"
        /\ state.messages[j].questions = Some(<<"q1", "q2">>)
        /\ state.messages[k].metadata.user_role = "student"

\* C28: in every card the counted answers are answers to questions that
\* are not locked, and the count is positive (the submit button is shown
\* and handleSubmit can pass its guard) only while Pending is non-empty.
C28_CountsOnlyUnlockedPending ==
    \A i \in Mounted :
        /\ \A k \in 1..Len(Get(cards[i]).answers) :
              Get(cards[i]).answers[k].questionId \notin LockedQuestionIds
        /\ PendingAnswerCount(i) > 0 => state.pendingAnswers # <<>>

\* C29: whenever isLoading is true some dispatch is awaiting its response.
C29_LoadingImpliesAwaiting ==
    state.isLoading =>
        \E i \in 1..Len(dispatches) : dispatches[i].phase = "awaiting"

\* C29's case: two dispatches overlap and isLoading is true.
C29_Witness ==
    /\ state.isLoading
    /\ Cardinality(Awaiting) = 2
    /\ dispatches[1].kind = "submitAnswersOnly"
    /\ dispatches[2].kind = "sendMessage"

\* C30: submittedAnswers never holds two entries with the same questionId.
C30_LockedKeyedByQuestion ==
    \A j, k \in 1..Len(state.submittedAnswers) :
        state.submittedAnswers[j].questionId
            = state.submittedAnswers[k].questionId => j = k

\* The option of the first entry of submittedAnswers for question id.
FirstLocked(id) ==
    LET ks == {k \in 1..Len(state.submittedAnswers) :
                  state.submittedAnswers[k].questionId = id}
    IN  state.submittedAnswers[CHOOSE k \in ks : \A j \in ks : k <= j]
            .selectedOptionId

\* C31: all entries of submittedAnswers for one questionId have the same
\* selectedOptionId, so the option the card reveals for a locked question
\* (the last entry's) is the one first locked for it.
C31_LockedSelectionFixed ==
    /\ \A j, k \in 1..Len(state.submittedAnswers) :
          state.submittedAnswers[j].questionId
              = state.submittedAnswers[k].questionId
          => state.submittedAnswers[j].selectedOptionId
                 = state.submittedAnswers[k].selectedOptionId
    /\ \A id \in LockedQuestionIds : LockedSelection(id) = FirstLocked(id)

\* C31's case: a question has two locked entries and a card reveals its
\* locked selection.
C31_Witness ==
    /\ \E j, k \in 1..Len(state.submittedAnswers) :
          /\ j < k
          /\ state.submittedAnswers[j].questionId
                 = state.submittedAnswers[k].questionId
    /\ \E i \in Mounted : IsCurrentLocked(i) /\ SelectedOption(i) = "a"

\* C32: a clearError step sets error to null and leaves the other fields
\* of the store and every dispatch as they are; and the call of every
\* awaiting dispatch, before and after it, can still resolve and can still
\* fail.
C32_ClearErrorOnlyClearsError ==
    /\ [][ClearError =>
            /\ state'.error = Null
            /\ state'.messages = state.messages
            /\ state'.isLoading = state.isLoading
            /\ state'.pendingAnswers = state.pendingAnswers
            /\ state'.submittedAnswers = state.submittedAnswers
            /\ state'.sessionId = state.sessionId
            /\ dispatches' = dispatches]_vars
    /\ [](\A i \in Awaiting :
             /\ ENABLED (CallResolves /\ Resolves(i))
             /\ ENABLED (CallRejects /\ Fails(i)))

\* C32's case: the error of a failed dispatch has been cleared while an
\* earlier dispatch is still awaiting its response.
C32_Witness ==
    /\ Len(dispatches) = 2
    /\ dispatches[1].phase = "awaiting"
    /\ dispatches[2].phase = "failed"
    /\ state.error = Null

\* The positions of the messages of a role.
MessagesOfRole(role) ==
    {k \in 1..Len(state.messages) :
        state.messages[k].metadata.user_role = role}

\* C33: there are as many requester messages as sendMessage dispatches
\* and as many tutor messages as resolved dispatches, and the transcript
\* holds nothing else: failed dispatches and commits of submitAnswersOnly
\* have appended nothing.
C33_TranscriptAccounts ==
    /\ Cardinality(MessagesOfRole("student"))
          = Cardinality({i \in 1..Len(dispatches) :
                            dispatches[i].kind = "sendMessage"})
    /\ Cardinality(MessagesOfRole("ai_tutor"))
          = Cardinality({i \in 1..Len(dispatches) :
                            dispatches[i].phase = "resolved"})
    /\ Len(state.messages)
          = Cardinality(MessagesOfRole("student"))
              + Cardinality(MessagesOfRole("ai_tutor"))

\* C33's case: a sendMessage has failed and a submitAnswersOnly has
\* resolved.
C33_Witness ==
    /\ Len(dispatches) = 2
    /\ \E i, j \in 1..2 :
          /\ dispatches[i].kind = "sendMessage"
          /\ dispatches[i].phase = "failed"
          /\ dispatches[j].kind = "submitAnswersOnly"
          /\ dispatches[j].phase = "resolved"
    /\ Len(state.messages) = 2

\* C34: when every call settles, every dispatch that is awaiting its
\* response is eventually resolved or failed; isLoading is false whenever
\* no dispatch is awaiting; and isLoading = true never lasts forever.
C34_EveryDispatchSettles ==
    /\ \A i \in 1..MaxDispatches :
          (i \in Awaiting) ~>
              (i \in 1..Len(dispatches)
                  /\ dispatches[i].phase \in {"resolved", "failed"})
    /\ [](Awaiting = {} => ~state.isLoading)
    /\ (state.isLoading ~> ~state.isLoading)

\* C34's case: two overlapping dispatches have both settled (the first
\* failed after the second had made its commit).
C34_Witness ==
    /\ Len(dispatches) = 2
    /\ dispatches[1].phase = "failed"
    /\ dispatches[2].phase = "resolved"
    /\ dispatches[2].kind = "sendMessage"
    /\ Len(state.messages) = 2
    /\ state.error # Null
    /\ ~state.isLoading

\* C35: while isLoading is true Pending is empty and no step changes it,
\* and a click on an option changes neither the store nor the card.
C35_NoSelectionWhileLoading ==
    /\ [](state.isLoading => state.pendingAnswers = <<>>)
    /\ [][state.isLoading =>
            state'.pendingAnswers = state.pendingAnswers]_vars
    /\ [][\A i \in Mounted, optionId \in OptionIds :
            (state.isLoading /\ OptionClick(i, optionId)) =>
                UNCHANGED <<state, cards, dispatches>>]_vars

\* C35's case: a dispatch is awaiting its response while a card shows a
\* question that is neither locked nor answered.
C35_Witness ==
    /\ state.isLoading
    /\ state.pendingAnswers = <<>>
    /\ \E i \in Mounted : ~IsCurrentLocked(i) /\ SelectedOption(i) = ""

\* The position in messages of the message with this id (0 when absent).
PositionOf(id) ==
    LET ks == {k \in 1..Len(state.messages) :
                  state.messages[k].metadata.message_id = id}
    IN  IF ks = {} THEN 0 ELSE CHOOSE k \in ks : TRUE

\* C36: in the application the requester message of a sendMessage that
\* is awaiting its response is the last message, and the tutor message of
\* a resolved sendMessage stands immediately after that dispatch's
\* requester message.
C36_ReplyNextToRequest ==
    \A i \in 1..Len(dispatches) :
        dispatches[i].kind = "sendMessage" =>
            /\ PositionOf(Get(dispatches[i].userMessage)) > 0
            /\ dispatches[i].phase = "awaiting" =>
                  PositionOf(Get(dispatches[i].userMessage))
                      = Len(state.messages)
            /\ dispatches[i].phase = "resolved" =>
                  PositionOf(Get(dispatches[i].reply))
                      = PositionOf(Get(dispatches[i].userMessage)) + 1

\* C36's case: two messages were sent and answered, and answers were
\* submitted and answered in between.
C36_Witness ==
    /\ Len(dispatches) = 3
    /\ \A i \in 1..3 : dispatches[i].phase = "resolved"
    /\ dispatches[1].kind = "sendMessage"
    /\ dispatches[2].kind = "submitAnswersOnly"
    /\ dispatches[3].kind = "sendMessage"
    /\ Len(state.messages) = 5

===========================================================================
